---- MODULE Spec2Model ----
(***************************************************************************)
(* A model of the Python client of the vector database                     *)
(* (clients/python/vector_db/client.py): the VectorDBClient facade, the    *)
(* wire requests it builds, the way it turns wire responses into results,  *)
(* the streaming batch insert and the lifecycle of the gRPC channel.       *)
(*                                                                         *)
(* Python values.  An Optional[T] value is None or Some(v), both tagged     *)
(* tuples.  A list is a sequence, a dict is a set of <<key, value>> pairs, *)
(* a float is a small integer.                                             *)
(* Wire values.  A scalar message field with presence is Unset or Set(v);  *)
(* a repeated or map field has no presence: it is a sequence or a set.     *)
(* Records list their fields in one fixed order throughout the module.     *)
(***************************************************************************)
EXTENDS Integers, Sequences, FiniteSets, TLC

VARIABLES
    channel,     \* the gRPC channel of the session: "open" or "closed"
    releases,    \* how many times the channel's resources were released
    closeCalls,  \* how many times close() ran (directly or from __exit__)
    scopes,      \* how many `with client:` blocks are entered and not left
    op,          \* the public operation called last ("none" at first)
    args,        \* its arguments
    rpcIssued,   \* whether that call invoked an RPC on the channel
    sent,        \* the wire messages that call handed to the transport
    eos,         \* batch_insert: the request stream was ended
    response,    \* the wire response that call consumed: <<>> or <<resp>>
    outcome,     \* "none", "pending", "returned" or "raised"
    error,       \* the exception raised, NoError otherwise
    result,      \* the value returned: <<>> or <<value>>
    pc,          \* the batch streaming controller's state
    rejected     \* batch_insert: the positions the server rejected so far

vars == <<channel, releases, closeCalls, scopes, op, args, rpcIssued, sent,
          eos, response, outcome, error, result, pc, rejected>>

session == <<channel, releases, closeCalls, scopes>>

\* ---------------------------------------------------------------- bounds

MaxCloses == 3
MaxScopes == 1
MaxBatch == 2
MaxResults == 1

\* --------------------------------------------------------- Python values

None == <<"None">>
Some(v) == <<"Some", v>>

\* `x or []` for an Optional[List]: None and the empty list are both falsy.
OrList(x) == IF x = None THEN <<>> ELSE IF x[2] = <<>> THEN <<>> ELSE x[2]

\* `x or {}` for an Optional[Dict].
OrDict(x) == IF x = None THEN {} ELSE IF x[2] = {} THEN {} ELSE x[2]

\* ----------------------------------------------------------- wire values

Unset == <<"unset">>
Set(v) == <<"set", v>>

\* A scalar keyword argument of a message constructor: None leaves the field
\* unset, any other value (the empty string included) sets it.
ScalarField(x) == IF x = None THEN Unset ELSE Set(x[2])

\* Reading a scalar field of a received message: the default when unset.
Read(f, default) == IF f = Unset THEN default ELSE f[2]

\* --------------------------------------------------------------- errors

NoError == [kind |-> "none", prefix |-> "", msg |-> ""]

\* grpc refuses an RPC on a closed channel before anything is sent.
ChannelClosed == [kind |-> "ChannelClosed", prefix |-> "", msg |-> ""]

\* grpc's error for a call that failed in transit.
RpcError == [kind |-> "RpcError", prefix |-> "", msg |-> ""]

\* raise Exception(f"<prefix>{response.error}")
OperationFailed(prefix, msg) == [kind |-> "Exception", prefix |-> prefix, msg |-> msg]

\* -------------------------------------------------------------- session

Init ==
    /\ channel = "open"
    /\ releases = 0
    /\ closeCalls = 0
    /\ scopes = 0
    /\ op = "none"
    /\ args = <<>>
    /\ rpcIssued = FALSE
    /\ sent = <<>>
    /\ eos = FALSE
    /\ response = <<>>
    /\ outcome = "none"
    /\ error = NoError
    /\ result = <<>>
    /\ pc = "Idle"
    /\ rejected = {}

\* No call is in flight: every public method blocks until it returns or raises.
Quiet == outcome # "pending"

\* A close() that leaves the channel as it was.
ChannelLeftAsIs(ch) == ch

\* A close() that releases the channel's resources on every call.
ReleasedEveryClose(ch) == 1

\* grpc.Channel.close(): the channel is closed afterwards, whatever it was.
ChannelAfterClose(ch) == "closed"

\* grpc.Channel.close(): releases the channel's resources if it still holds
\* them; closing a closed channel does nothing.
ReleasedByClose(ch) == IF ch = "open" THEN 1 ELSE 0

\* VectorDBClient.close
DoClose ==
    /\ channel' = ChannelAfterClose(channel)
    /\ releases' = releases + ReleasedByClose(channel)
    /\ closeCalls' = closeCalls + 1

Close ==
    /\ Quiet
    /\ closeCalls < MaxCloses
    /\ DoClose
    /\ UNCHANGED <<scopes, op, args, rpcIssued, sent, eos, response, outcome,
                   error, result, pc, rejected>>

\* VectorDBClient.__enter__
Enter ==
    /\ Quiet
    /\ scopes < MaxScopes
    /\ scopes' = scopes + 1
    /\ UNCHANGED <<channel, releases, closeCalls, op, args, rpcIssued, sent,
                   eos, response, outcome, error, result, pc, rejected>>

\* VectorDBClient.__exit__
Exit ==
    /\ Quiet
    /\ scopes > 0
    /\ closeCalls < MaxCloses
    /\ scopes' = scopes - 1
    /\ DoClose
    /\ UNCHANGED <<op, args, rpcIssued, sent, eos, response, outcome, error,
                   result, pc, rejected>>

\* ------------------------------------------------------ unary RPC calls

\* response = self.stub.<Method>(request), then the handler's treatment of
\* the response.  net is what the transport does with an issued RPC ("ok" or
\* "unavailable"); failed, prefix and msg are the handler's error check on
\* resp, value is what it returns otherwise.
UnaryCall(o, a, request, net, resp, failed, prefix, msg, value) ==
    /\ Quiet
    /\ op' = o
    /\ args' = a
    /\ eos' = FALSE
    /\ pc' = "Idle"
    /\ rejected' = {}
    /\ UNCHANGED session
    /\ IF channel = "closed"
       THEN /\ rpcIssued' = FALSE
            /\ sent' = <<>>
            /\ response' = <<>>
            /\ outcome' = "raised"
            /\ error' = ChannelClosed
            /\ result' = <<>>
       ELSE /\ rpcIssued' = TRUE
            /\ sent' = <<request>>
            /\ IF net # "ok"
               THEN /\ response' = <<>>
                    /\ outcome' = "raised"
                    /\ error' = RpcError
                    /\ result' = <<>>
               ELSE /\ response' = <<resp>>
                    /\ IF failed
                       THEN /\ outcome' = "raised"
                            /\ error' = OperationFailed(prefix, msg)
                            /\ result' = <<>>
                       ELSE /\ outcome' = "returned"
                            /\ error' = NoError
                            /\ result' = <<value>>

Net == {"ok", "unavailable"}

\* ---------------------------------------------------------------- insert

InsertRequest(namespace, vector, metadata, text, id) ==
    [namespace |-> namespace, vector |-> vector, metadata |-> metadata,
     text |-> text, id |-> id]

\* VectorDBClient.insert
Insert(namespace, vector, metadata, text, id, net, resp) ==
    UnaryCall("insert",
              [namespace |-> namespace, vector |-> vector, metadata |-> metadata,
               text |-> text, id |-> id],
              InsertRequest(namespace, vector, OrDict(metadata),
                            ScalarField(text), ScalarField(id)),
              net, resp,
              ~resp.success, "Insert failed: ", resp.error,
              resp.id)

\* ---------------------------------------------------------------- search

SearchRequest(namespace, query_vector, k, ef_search, distance_metric) ==
    [namespace |-> namespace, query_vector |-> query_vector, k |-> k,
     ef_search |-> ef_search, distance_metric |-> distance_metric]

\* The fields the wire schema declares for one search hit (the data model's
\* SearchResult); hasattr(r, name) tells whether the schema declares name,
\* whatever the server populated.
ResultFields ==
    {"id", "distance", "vector", "metadata", "text", "vector_score", "text_score"}

HasAttr(r, name) == name \in ResultFields

\* `list(r.vector) if r.vector else None`
ListOrNone(xs) == IF xs # <<>> THEN Some(xs) ELSE None

\* `dict(r.metadata) if r.metadata else None`
DictOrNone(d) == IF d # {} THEN Some(d) ELSE None

\* `r.text if r.text else None`: r.text reads "" when the field is unset.
TextOrNone(f) == IF Read(f, "") # "" THEN Some(Read(f, "")) ELSE None

\* `r.vector_score if hasattr(r, 'vector_score') else None`
ScoreOrNone(r, name) == IF HasAttr(r, name) THEN Some(Read(r[name], 0)) ELSE None

\* SearchResult(...) as search builds it: the score fields keep their default.
SearchResultOf(r) ==
    [vector |-> ListOrNone(r.vector), metadata |-> DictOrNone(r.metadata),
     text |-> TextOrNone(r.text), id |-> r.id, distance |-> r.distance,
     vector_score |-> None, text_score |-> None]

\* SearchResult(...) as hybrid_search builds it.
HybridResultOf(r) ==
    [vector |-> ListOrNone(r.vector), metadata |-> DictOrNone(r.metadata),
     text |-> TextOrNone(r.text), id |-> r.id, distance |-> r.distance,
     vector_score |-> ScoreOrNone(r, "vector_score"),
     text_score |-> ScoreOrNone(r, "text_score")]

\* VectorDBClient.search (filter_dict is accepted and never used)
Search(namespace, query_vector, k, ef_search, distance_metric, net, resp) ==
    UnaryCall("search",
              [namespace |-> namespace, query_vector |-> query_vector, k |-> k,
               ef_search |-> ef_search, distance_metric |-> distance_metric],
              SearchRequest(namespace, query_vector, k, ef_search, distance_metric),
              net, resp,
              resp.error # "", "Search failed: ", resp.error,
              [i \in 1..Len(resp.results) |-> SearchResultOf(resp.results[i])])

\* --------------------------------------------------------- hybrid search

rrf_k == 60

\* A config builder that rescales weighted-fusion weights to sum to 1 (10
\* tenths) when they do not.
HybridSearchConfigRescaled(fusion_method, vector_weight, text_weight) ==
    IF fusion_method = "weighted" /\ vector_weight + text_weight \notin {0, 10}
    THEN [rrf_k |-> rrf_k, fusion_method |-> fusion_method,
          vector_weight |-> (10 * vector_weight) \div (vector_weight + text_weight),
          text_weight |-> 10 - (10 * vector_weight) \div (vector_weight + text_weight)]
    ELSE [rrf_k |-> rrf_k, fusion_method |-> fusion_method,
          vector_weight |-> vector_weight, text_weight |-> text_weight]

HybridSearchConfig(fusion_method, vector_weight, text_weight) ==
    [rrf_k |-> rrf_k, fusion_method |-> fusion_method,
     vector_weight |-> vector_weight, text_weight |-> text_weight]

HybridSearchRequest(namespace, query_vector, query_text, k, ef_search, config) ==
    [namespace |-> namespace, query_vector |-> query_vector, k |-> k,
     ef_search |-> ef_search, query_text |-> query_text, config |-> config]

\* VectorDBClient.hybrid_search
HybridSearch(namespace, query_vector, query_text, k, ef_search, fusion_method, vector_weight, text_weight, net, resp) ==
    UnaryCall("hybrid_search",
              [namespace |-> namespace, query_vector |-> query_vector,
               k |-> k, ef_search |-> ef_search,
               fusion_method |-> fusion_method,
               vector_weight |-> vector_weight, text_weight |-> text_weight,
               query_text |-> query_text],
              HybridSearchRequest(namespace, query_vector, query_text, k, ef_search,
                  HybridSearchConfig(fusion_method, vector_weight, text_weight)),
              net, resp,
              resp.error # "", "Hybrid search failed: ", resp.error,
              [i \in 1..Len(resp.results) |-> HybridResultOf(resp.results[i])])

\* ------------------------------------------------------- update, delete

UpdateRequest(namespace, id, vector, metadata, text) ==
    [namespace |-> namespace, vector |-> vector, metadata |-> metadata,
     text |-> text, id |-> id]

\* The request update builds: vector=vector or [], metadata=metadata or {},
\* text=text.
BuildUpdate(namespace, id, vector, metadata, text) ==
    UpdateRequest(namespace, id, OrList(vector), OrDict(metadata),
                  ScalarField(text))

\* VectorDBClient.update
Update(namespace, id, vector, metadata, text, net, resp) ==
    UnaryCall("update",
              [namespace |-> namespace, vector |-> vector,
               metadata |-> metadata, text |-> text, id |-> id],
              BuildUpdate(namespace, id, vector, metadata, text),
              net, resp,
              ~resp.success, "Update failed: ", resp.error,
              TRUE)

DeleteRequest(namespace, id) == [namespace |-> namespace, id |-> id]

\* VectorDBClient.delete
Delete(namespace, id, net, resp) ==
    UnaryCall("delete",
              [namespace |-> namespace, id |-> id],
              DeleteRequest(namespace, id),
              net, resp,
              ~resp.success, "Delete failed: ", resp.error,
              resp.deleted_count)

\* ------------------------------------------------ statistics and health

StatsRequest(namespace) == [namespace |-> ScalarField(namespace)]

\* The dict get_stats returns: the response's fields, copied.
StatsSnapshot(resp) ==
    [total_vectors |-> resp.total_vectors,
     total_namespaces |-> resp.total_namespaces,
     memory_usage_bytes |-> resp.memory_usage_bytes,
     namespace_stats |->
         {<<e[1], [vector_count |-> e[2].vector_count,
                   memory_bytes |-> e[2].memory_bytes,
                   dimensions |-> e[2].dimensions]>> : e \in resp.namespace_stats}]

\* VectorDBClient.get_stats: the response is returned without any check.
GetStats(namespace, net, resp) ==
    UnaryCall("get_stats",
              [namespace |-> namespace],
              StatsRequest(namespace),
              net, resp,
              FALSE, "", "",
              StatsSnapshot(resp))

HealthCheckRequest == [empty |-> TRUE]

\* The dict health_check returns.
HealthSnapshot(resp) ==
    [status |-> resp.status, version |-> resp.version,
     uptime_seconds |-> resp.uptime_seconds, details |-> resp.details]

\* VectorDBClient.health_check: the response is returned without any check.
HealthCheck(net, resp) ==
    UnaryCall("health_check",
              [empty |-> TRUE],
              HealthCheckRequest,
              net, resp,
              FALSE, "", "",
              HealthSnapshot(resp))

\* ---------------------------------------------------------- batch insert

\* A generator that walks the list back to front.
NextItemReversed(vectors, n) == vectors[Len(vectors) - n]

\* The item the request generator yields after n items: `for vector,
\* metadata in vectors` walks the list front to back.
NextItem(vectors, n) == vectors[n + 1]

\* The message the generator builds from one (vector, metadata) pair.
BatchMessage(namespace, item) ==
    InsertRequest(namespace, item[1], item[2], Unset, Unset)

\* The positions of 1..n outside rej, in ascending order.
RECURSIVE Accepted(_, _)
Accepted(n, rej) ==
    IF n = 0 THEN <<>>
    ELSE IF n \in rej THEN Accepted(n - 1, rej)
    ELSE Append(Accepted(n - 1, rej), n)

\* The positions of 1..n inside rej, in ascending order.
RECURSIVE Refused(_, _)
Refused(n, rej) ==
    IF n = 0 THEN <<>>
    ELSE IF n \in rej THEN Append(Refused(n - 1, rej), n)
    ELSE Refused(n - 1, rej)

\* The one aggregated response of a server that received n messages, rejected
\* those at the positions rej and reports positions as ids and as errors.
BatchInsertResponse(n, rej) ==
    [inserted_count |-> n - Cardinality(rej), failed_count |-> Cardinality(rej),
     inserted_ids |-> Accepted(n, rej), errors |-> Refused(n, rej),
     total_time_ms |-> n]

\* The dict batch_insert returns: the response's fields, copied.
BatchOutcome(resp) ==
    [inserted_count |-> resp.inserted_count, failed_count |-> resp.failed_count,
     inserted_ids |-> resp.inserted_ids, errors |-> resp.errors,
     total_time_ms |-> resp.total_time_ms]

InFlight == op = "batch_insert" /\ outcome = "pending"

\* VectorDBClient.batch_insert is called: the generator is defined, nothing
\* has run yet.
BatchInsert(namespace, vectors) ==
    /\ Quiet
    /\ op' = "batch_insert"
    /\ args' = [namespace |-> namespace, vectors |-> vectors]
    /\ rpcIssued' = FALSE
    /\ sent' = <<>>
    /\ eos' = FALSE
    /\ response' = <<>>
    /\ outcome' = "pending"
    /\ error' = NoError
    /\ result' = <<>>
    /\ pc' = "Idle"
    /\ rejected' = {}
    /\ UNCHANGED session

\* A batch_insert that refuses an empty input list before opening a stream.
OpenStreamRefusingEmpty ==
    /\ InFlight
    /\ pc = "Idle"
    /\ IF channel = "closed"
       THEN /\ outcome' = "raised"
            /\ error' = ChannelClosed
            /\ UNCHANGED <<rpcIssued, pc>>
       ELSE IF args.vectors = <<>>
       THEN /\ outcome' = "raised"
            /\ error' = OperationFailed("Batch insert failed: ", "no vectors")
            /\ UNCHANGED <<rpcIssued, pc>>
       ELSE /\ rpcIssued' = TRUE
            /\ pc' = "Streaming"
            /\ UNCHANGED <<outcome, error>>
    /\ UNCHANGED <<session, op, args, sent, eos, response, result, rejected>>

\* self.stub.BatchInsert(request_generator()): one client stream is opened,
\* unless the channel is closed.
OpenStream ==
    /\ InFlight
    /\ pc = "Idle"
    /\ IF channel = "closed"
       THEN /\ outcome' = "raised"
            /\ error' = ChannelClosed
            /\ UNCHANGED <<rpcIssued, pc>>
       ELSE /\ rpcIssued' = TRUE
            /\ pc' = "Streaming"
            /\ UNCHANGED <<outcome, error>>
    /\ UNCHANGED <<session, op, args, sent, eos, response, result, rejected>>

\* The transport pulls the next message from the generator and sends it; the
\* server accepts or rejects it on arrival.
Emit(reject) ==
    /\ InFlight
    /\ pc = "Streaming"
    /\ Len(sent) < Len(args.vectors)
    /\ sent' = Append(sent, BatchMessage(args.namespace,
                                         NextItem(args.vectors, Len(sent))))
    /\ rejected' = IF reject THEN rejected \cup {Len(sent) + 1} ELSE rejected
    /\ UNCHANGED <<session, op, args, rpcIssued, eos, response, outcome, error,
                   result, pc>>

\* The generator is exhausted: the request stream is ended.
EndOfStream ==
    /\ InFlight
    /\ pc = "Streaming"
    /\ Len(sent) = Len(args.vectors)
    /\ eos' = TRUE
    /\ pc' = "AwaitingSummary"
    /\ UNCHANGED <<session, op, args, rpcIssued, sent, response, outcome, error,
                   result, rejected>>

\* A batch_insert that raises when the summary reports failed items.
SummaryRaisingOnFailures(resp) ==
    /\ InFlight
    /\ pc = "AwaitingSummary"
    /\ response' = <<resp>>
    /\ IF resp.failed_count > 0
       THEN /\ outcome' = "raised"
            /\ error' = OperationFailed("Batch insert failed: ", "items rejected")
            /\ result' = <<>>
       ELSE /\ outcome' = "returned"
            /\ error' = NoError
            /\ result' = <<BatchOutcome(resp)>>
    /\ pc' = "Complete"
    /\ UNCHANGED <<session, op, args, rpcIssued, sent, eos, rejected>>

\* The aggregated response arrives and is returned as a dict, unchecked.
Summary(resp) ==
    /\ InFlight
    /\ pc = "AwaitingSummary"
    /\ response' = <<resp>>
    /\ outcome' = "returned"
    /\ result' = <<BatchOutcome(resp)>>
    /\ pc' = "Complete"
    /\ UNCHANGED <<session, op, args, rpcIssued, sent, eos, error, rejected>>

\* The transport fails while the stream is open: the call raises grpc's error.
StreamFail ==
    /\ InFlight
    /\ pc \in {"Streaming", "AwaitingSummary"}
    /\ outcome' = "raised"
    /\ error' = RpcError
    /\ UNCHANGED <<session, op, args, rpcIssued, sent, eos, response, result,
                   pc, rejected>>

\* ------------------------------------------------ inputs and environment

SeqsUpTo(S, n) == UNION {[1..m -> S] : m \in 0..n}

Vectors == {<<>>, <<1>>}
OptVector == {None} \cup {Some(v) : v \in Vectors}
Metadata == {{}, {<<"title", "Doc">>}}
OptMetadata == {None} \cup {Some(m) : m \in Metadata}
OptText == {None, Some(""), Some("hello")}
OptId == {None, Some("v1")}
OptNamespace == {None, Some("default")}
\* k = 10 is the signature's default; 0 is below the smallest legal k.
Ks == {0, 1, 10}
\* ef_search = 50 and distance_metric = "cosine" are the signature's defaults.
EfSearches == {50}
Metrics == {"cosine"}
QueryTexts == {"", "vector database"}
FusionMethods == {"rrf", "weighted"}
\* Weights in tenths: 7 and 3 are the defaults 0.7 and 0.3.
Weights == {0, 3, 7}
BatchItems == {<< <<1>>, {} >>, << <<2>>, {<<"title", "Doc">>} >>, << <<>>, {} >>}

ErrorStrings == {"", "boom"}

\* The response-level error string of a snapshot response (get_stats,
\* health_check): every call's response carries an error signal.
SnapshotSignal == ErrorStrings

InsertResponses == [error : ErrorStrings, id : {"id-1"}, success : BOOLEAN]
UpdateResponses == [error : ErrorStrings, success : BOOLEAN]
DeleteResponses == [error : ErrorStrings, success : BOOLEAN,
                    deleted_count : {1}]

Texts == {Unset, Set(""), Set("doc")}
Scores == {Unset, Set(0), Set(5)}
ZeroScores == {Unset, Set(0)}

\* Hits as a search response carries them.
SearchHits ==
    [vector : Vectors, metadata : {{}}, text : Texts, id : {"a"},
     distance : {0}, vector_score : {Unset}, text_score : {Unset}]

\* Hits as a hybrid search response carries them.
HybridHits ==
    [vector : {<<>>}, metadata : {{}}, text : {Unset}, id : {"a"},
     distance : {0}, vector_score : Scores, text_score : ZeroScores]

SearchResponses == [error : ErrorStrings, results : SeqsUpTo(SearchHits, MaxResults)]
HybridResponses == [error : ErrorStrings, results : SeqsUpTo(HybridHits, MaxResults)]

NamespaceStats ==
    {{}, {<<"default", [vector_count |-> 5, memory_bytes |-> 640, dimensions |-> 128]>>}}

StatsResponses ==
    [error : SnapshotSignal, total_vectors : {5}, total_namespaces : {1},
     memory_usage_bytes : {640}, namespace_stats : NamespaceStats]

HealthResponses ==
    [error : SnapshotSignal, status : {"healthy"}, version : {"1.1.0"},
     uptime_seconds : {1}, details : {{}}]

\* ----------------------------------------------------------- the system

\* Each call is tried with every argument against a plain success, and with
\* plain arguments against everything the transport and the server may answer.

InsertOk == [error |-> "", id |-> "id-1", success |-> TRUE]

CallInsert ==
    \/ \E vector \in Vectors, metadata \in OptMetadata, text \in OptText,
          id \in OptId :
           Insert("default", vector, metadata, text, id, "ok", InsertOk)
    \/ \E net \in Net, resp \in InsertResponses :
           Insert("default", <<1>>, None, None, None, net, resp)

SearchOk == [error |-> "", results |-> <<>>]

CallSearch ==
    \/ \E query_vector \in Vectors, k \in Ks, ef_search \in EfSearches,
          distance_metric \in Metrics :
           Search("default", query_vector, k, ef_search, distance_metric,
                  "ok", SearchOk)
    \/ \E net \in Net, resp \in SearchResponses :
           Search("default", <<1>>, 10, 50, "cosine", net, resp)

CallHybridSearch ==
    \/ \E query_text \in QueryTexts, fusion_method \in FusionMethods,
          vector_weight \in Weights, text_weight \in Weights :
           HybridSearch("default", <<1>>, query_text, 10, 50, fusion_method,
                        vector_weight, text_weight, "ok", SearchOk)
    \/ \E net \in Net, resp \in HybridResponses :
           HybridSearch("default", <<1>>, "vector database", 10, 50, "rrf",
                        7, 3, net, resp)

UpdateOk == [error |-> "", success |-> TRUE]

CallUpdate ==
    \/ \E vector \in OptVector, metadata \in OptMetadata, text \in OptText :
           Update("default", "v1", vector, metadata, text, "ok", UpdateOk)
    \/ \E net \in Net, resp \in UpdateResponses :
           Update("default", "v1", None, None, None, net, resp)

CallDelete ==
    \E net \in Net, resp \in DeleteResponses : Delete("default", "v1", net, resp)

CallGetStats ==
    \E namespace \in OptNamespace, net \in Net, resp \in StatsResponses :
        GetStats(namespace, net, resp)

CallHealthCheck ==
    \E net \in Net, resp \in HealthResponses : HealthCheck(net, resp)

CallBatchInsert ==
    \E vectors \in SeqsUpTo(BatchItems, MaxBatch) : BatchInsert("default", vectors)

EmitNext == \E reject \in BOOLEAN : Emit(reject)

ReceiveSummary == Summary(BatchInsertResponse(Len(sent), rejected))

Next ==
    \/ Close
    \/ Enter
    \/ Exit
    \/ CallInsert
    \/ CallSearch
    \/ CallHybridSearch
    \/ CallBatchInsert
    \/ OpenStream
    \/ EmitNext
    \/ EndOfStream
    \/ ReceiveSummary
    \/ StreamFail
    \/ CallUpdate
    \/ CallDelete
    \/ CallGetStats
    \/ CallHealthCheck

Spec == Init /\ [][Next]_vars

\* ================================================================ claims

\* The call state: what a public operation writes when it runs.
call == <<op, args, rpcIssued, sent, eos, response, outcome, error, result, pc,
          rejected>>

\* C1: once close() has been called the session is closed for good, and every
\* operation called afterwards raises the transport's channel-closed error:
\* it issues no RPC, hands nothing to the transport, consumes no response and
\* returns no result.
C1_ClosedIsTerminal ==
    /\ [](closeCalls > 0 => channel = "closed")
    /\ [][channel = "closed" => channel' = "closed"]_vars
    /\ [][(closeCalls > 0 /\ call' # call) =>
            /\ outcome' \in {"pending", "raised"}
            /\ outcome' = "raised" => error' = ChannelClosed
            /\ ~rpcIssued'
            /\ sent' = <<>>
            /\ response' = <<>>
            /\ result' = <<>>]_vars

\* A batch_insert called after close() has raised channel-closed.
C1_Witness ==
    /\ closeCalls > 0
    /\ op = "batch_insert"
    /\ outcome = "raised"
    /\ error = ChannelClosed

\* C2: however many times close() and __exit__ run, the channel's resources
\* are released exactly once, by the first of them; the later ones change
\* nothing but the count of calls.
C2_ReleasedOnce ==
    /\ releases = (IF closeCalls > 0 THEN 1 ELSE 0)
    /\ closeCalls > 0 => channel = "closed"

\* close() ran as often as the bound allows and the channel was released once.
C2_Witness == closeCalls = MaxCloses /\ releases = 1 /\ scopes = 0

\* The message batch_insert is to build from the i-th input pair.
ItemMessage(i) ==
    [namespace |-> args.namespace, vector |-> args.vectors[i][1],
     metadata |-> args.vectors[i][2], text |-> Unset, id |-> Unset]

StreamOrder ==
    {<<"Idle", "Streaming">>, <<"Streaming", "AwaitingSummary">>,
     <<"AwaitingSummary", "Complete">>}

\* C3: batch_insert opens one stream, sends the i-th input pair as the i-th
\* message, ends the stream only after the last pair, then consumes one
\* response; the controller moves Idle, Streaming, Awaiting-Summary, Complete.
C3_StreamInOrder ==
    /\ [](op = "batch_insert" =>
            /\ Len(sent) <= Len(args.vectors)
            /\ \A i \in 1..Len(sent) : sent[i] = ItemMessage(i)
            /\ eos => Len(sent) = Len(args.vectors)
            /\ rpcIssued <=> pc # "Idle"
            /\ pc \in {"AwaitingSummary", "Complete"} => eos
            /\ response # <<>> <=> pc = "Complete"
            /\ pc = "Complete" =>
                  /\ outcome = "returned"
                  /\ Len(response) = 1
                  /\ Len(sent) = Len(args.vectors))
    /\ [][pc' # pc => (<<pc, pc'>> \in StreamOrder \/ (Quiet /\ pc' = "Idle"))]_vars

\* A batch of two different pairs has completed.
C3_Witness ==
    /\ op = "batch_insert"
    /\ pc = "Complete"
    /\ Len(sent) = 2
    /\ sent[1] # sent[2]

\* C6: a rejected item neither stops the stream nor raises: the remaining
\* items can still be sent, the call returns, and the rejections show only in
\* the returned failed_count and errors.
C6_RejectionsAreData ==
    op = "batch_insert" =>
        /\ (InFlight /\ pc = "Streaming" /\ Len(sent) < Len(args.vectors))
              => ENABLED EmitNext
        /\ outcome = "raised" => error \in {ChannelClosed, RpcError}
        /\ pc = "Complete" =>
              /\ outcome = "returned"
              /\ error = NoError
              /\ Len(sent) = Len(args.vectors)
              /\ result[1].failed_count = Cardinality(rejected)
              /\ result[1].errors = Refused(Len(sent), rejected)
              /\ result[1].inserted_count = Len(sent) - Cardinality(rejected)

\* The first of two items was rejected, the second was sent all the same and
\* the call returned.
C6_Witness ==
    /\ op = "batch_insert"
    /\ pc = "Complete"
    /\ outcome = "returned"
    /\ rejected = {1}
    /\ Len(sent) = 2

\* C7: batch_insert of an empty list raises nothing of its own (only the
\* transport's errors can end it) and, once the server has answered the empty
\* stream, returns counts of zero and empty lists.
C7_EmptyBatch ==
    (op = "batch_insert" /\ args.vectors = <<>>) =>
        /\ sent = <<>>
        /\ outcome = "raised" => error \in {ChannelClosed, RpcError}
        /\ (InFlight /\ pc = "Idle") => ENABLED OpenStream
        /\ (InFlight /\ pc = "Streaming") => ENABLED EndOfStream
        /\ (InFlight /\ pc = "AwaitingSummary") => ENABLED ReceiveSummary
        /\ (channel = "open" /\ closeCalls = 0) => pc # "Idle" \/ outcome = "pending"
        /\ pc = "Complete" =>
              /\ outcome = "returned"
              /\ result[1].inserted_count = 0
              /\ result[1].failed_count = 0
              /\ result[1].inserted_ids = <<>>
              /\ result[1].errors = <<>>

\* An empty batch has completed.
C7_Witness ==
    /\ op = "batch_insert"
    /\ args.vectors = <<>>
    /\ pc = "Complete"
    /\ outcome = "returned"

\* C10: hybrid_search puts the caller's fusion_method, vector_weight,
\* text_weight and query_text on the wire as given, with rrf_k = 60, and
\* refuses none of them: only a closed channel keeps the request from being
\* issued.
C10_FusionForwarded ==
    op = "hybrid_search" =>
        /\ ~rpcIssued => error = ChannelClosed
        /\ rpcIssued =>
              /\ sent[1].config =
                    [rrf_k |-> 60, fusion_method |-> args.fusion_method,
                     vector_weight |-> args.vector_weight,
                     text_weight |-> args.text_weight]
              /\ sent[1].query_text = args.query_text
              /\ error.kind # "Exception" \/ response # <<>>

\* A weighted fusion with weights 0.7 and 0.7 and an empty query text went out.
C10_Witness ==
    /\ op = "hybrid_search"
    /\ rpcIssued
    /\ args.fusion_method = "weighted"
    /\ args.vector_weight = 7
    /\ args.text_weight = 7
    /\ args.query_text = ""
    /\ outcome = "returned"

\* C4: a call that violates a precondition of the request builder (insert
\* with an empty vector, search with k < 1) raises a validation error and
\* issues no RPC.
C4_ValidatedBeforeSending ==
    ((op = "insert" /\ args.vector = <<>>) \/ (op = "search" /\ args.k < 1)) =>
        /\ outcome = "raised"
        /\ error.kind = "ValidationError"
        /\ ~rpcIssued

\* Whether the response of operation o signals an error at the response
\* level: the success flag of insert, update and delete, the error string of
\* the searches and of the snapshot calls.
ErrorSignalled(o, resp) ==
    CASE o \in {"insert", "update", "delete"} -> ~resp.success
      [] o \in {"search", "hybrid_search", "get_stats", "health_check"} ->
            resp.error # ""
      [] OTHER -> FALSE

\* C5: whenever the response a call consumed signals an error, the call
\* returns no result and raises an operation failure that carries the server's
\* message.
C5_ErrorSignalChecked ==
    (response # <<>> /\ outcome # "pending" /\ ErrorSignalled(op, response[1])) =>
        /\ outcome = "raised"
        /\ result = <<>>
        /\ error.kind = "Exception"
        /\ error.msg = response[1].error

\* The arguments of an update with one of vector, metadata and text switched
\* between unset and empty, the others kept.
AbsentEmptySwaps(a) ==
    {[a EXCEPT !.vector = v] : v \in {None, Some(<<>>)}} \cup
    {[a EXCEPT !.metadata = m] : m \in {None, Some({})}} \cup
    {[a EXCEPT !.text = t] : t \in {None, Some("")}}

\* C8: the request update sends tells unset from empty for each of vector,
\* metadata and text: switching one of them between None and the empty value
\* changes the request.
C8_AbsentIsNotEmpty ==
    (op = "update" /\ rpcIssued) =>
        \A b \in AbsentEmptySwaps(args) :
            b # args =>
                BuildUpdate(b.namespace, b.id, b.vector, b.metadata, b.text) # sent[1]

\* Whether the returned optional value r mirrors the wire field f: None
\* exactly when f is unset, and the field's value otherwise.
Mirrors(r, f) == (r = None <=> f = Unset) /\ (f # Unset => r = Some(f[2]))

\* C9: in every record search and hybrid_search return, text, vector_score and
\* text_score are None exactly when the server left the field unset, and carry
\* the server's value (the empty string and 0.0 included) otherwise.
C9_PresenceKept ==
    (op \in {"search", "hybrid_search"} /\ outcome = "returned") =>
        \A i \in 1..Len(result[1]) :
            /\ Mirrors(result[1][i].text, response[1].results[i].text)
            /\ Mirrors(result[1][i].vector_score, response[1].results[i].vector_score)
            /\ Mirrors(result[1][i].text_score, response[1].results[i].text_score)

====
